---- MODULE Spec2Model ----
(***************************************************************************)
(* State-machine model of the layer lifecycle tracker of                   *)
(* napari-spatialdata (SpatialDataViewer in _viewer.py) together with the  *)
(* name helpers of utils/_utils.py.                                        *)
(*                                                                         *)
(* Names are sequences of tokens (<<"cells", "_", "0">> is "cells_0"), so  *)
(* that suffixing, suffix stripping and the duplicate pattern " [n]" are   *)
(* computed, not assumed.  Optional values are sets: {} is None, {v} is v. *)
(* Positions in row_index_map are 0-based as in the source.                *)
(***************************************************************************)
EXTENDS Integers, Sequences, FiniteSets, TLC

\* ------------------------------------------------------------------ bounds
MaxLayers == 2      \* layer slots of the viewer
MaxRows == 4        \* rows a point/shape layer may hold
MaxCache == 2       \* events kept per edit cache before the model stops editing
MaxAdd == 2         \* rows added by one ADD event
MaxPick == 2        \* rows removed or moved by one REMOVE / CHANGE event
MaxOps == 4         \* user operations in one session
MaxDeepOps == 5     \* user operations in one long session (SpecDeep)

\* ------------------------------------------------------------------ values
None == {}
Some(v) == {v}
Get(o) == CHOOSE v \in o : TRUE

Slots == 1..MaxLayers
CoordSystems == {"global", "space"}
Digits == {"0", "1", "2"}

\* str(i) for a dataset index
IndexToken(i) == IF i = 0 THEN "0" ELSE IF i = 1 THEN "1" ELSE "2"

N_pts == <<"pts">>
N_cells == <<"cells">>
N_img == <<"img">>
N_x == <<"x">>
N_new == <<"new">>

\* ------------------------------------------------------------------ name helpers
\* the regular expression r" \[\d+\]$": start position of the match, 0 if none
DupPatternStart(name) ==
    LET n == Len(name)
        starts == {i \in 1..n :
                     /\ i + 3 <= n
                     /\ name[i] = " "
                     /\ name[i + 1] = "["
                     /\ name[n] = "]"
                     /\ \A j \in (i + 2)..(n - 1) : name[j] \in Digits}
    IN IF starts = {} THEN 0 ELSE CHOOSE i \in starts : \A j \in starts : i <= j

duplicate_pattern_found(name) == DupPatternStart(name) > 0

\* re.sub(pattern, "", layer.name) if duplicate_pattern_found else layer.name
name_to_validate(name) ==
    IF duplicate_pattern_found(name) THEN SubSeq(name, 1, DupPatternStart(name) - 1) ELSE name

\* name + f"_{sdata_index}"
SuffixName(name, i) == name \o <<"_", IndexToken(i)>>

\* str.rfind("_"): 0-based position of the last "_", -1 if none
RFindUnderscore(name) ==
    LET pos == {i \in 1..Len(name) : name[i] = "_"}
    IN IF pos = {} THEN -1 ELSE (CHOOSE i \in pos : \A j \in pos : j <= i) - 1

\* mutant: the name is cut at its first "_"
StripSuffix_FirstUnderscore(name) ==
    LET pos == {i \in 1..Len(name) : name[i] = "_"}
    IN IF pos = {} THEN SubSeq(name, 1, Len(name) - 1)
       ELSE SubSeq(name, 1, (CHOOSE i \in pos : \A j \in pos : i <= j) - 1)

\* original_name[: original_name.rfind("_")]  (a slice up to -1 drops the last token)
StripSuffix(name) ==
    LET r == RFindUnderscore(name)
    IN IF r >= 0 THEN SubSeq(name, 1, r) ELSE SubSeq(name, 1, Len(name) - 1)

\* the viewer keeps layer names unique: a taken name gets " [1]", " [2]", ...
CoerceName(name, taken) ==
    IF name \notin taken THEN name
    ELSE LET base == name_to_validate(name)
             free == {k \in 1..(MaxLayers + 2) : base \o <<" ", "[", IndexToken(k), "]">> \notin taken}
             k == CHOOSE i \in free : \A j \in free : i <= j
         IN base \o <<" ", "[", IndexToken(k), "]">>

\* ------------------------------------------------------------------ sequences
Range(s) == {s[i] : i \in 1..Len(s)}

\* list(range(n))
RangeList(n) == [i \in 1..n |-> i - 1]

\* del s[p] for a 0-based position p
DelAt(s, p) == [i \in 1..(Len(s) - 1) |-> IF i <= p THEN s[i] ELSE s[i + 1]]

\* sorted(positions, reverse=True)
RECURSIVE SortedDesc(_)
SortedDesc(P) ==
    IF P = {} THEN <<>>
    ELSE LET m == CHOOSE x \in P : \A y \in P : y <= x
         IN <<m>> \o SortedDesc(P \ {m})

\* np.sort over a set of row positions: the positions in increasing order
RECURSIVE SortedAsc(_)
SortedAsc(P) ==
    IF P = {} THEN <<>>
    ELSE LET m == CHOOSE x \in P : \A y \in P : x <= y
         IN <<m>> \o SortedAsc(P \ {m})

\* mutant: only the first of the removed positions is deleted
DelAll_FirstOnly(s, order) == IF order = <<>> THEN s ELSE DelAt(s, Head(order))

\* for i in napari_indices: del indices[i]
RECURSIVE DelAll(_, _)
DelAll(s, order) ==
    IF order = <<>> THEN s ELSE DelAll(DelAt(s, Head(order)), Tail(order))

\* ------------------------------------------------------------------ datasets
\* one element of a SpatialData object: its collection ("images", "labels",
\* "points", "shapes"), its name, its geometry ("circle", "polygon" or ""),
\* its row index (df.index), and the coordinate systems it has a transform to
\* (ident: those whose transform is the identity; table: the keys of its
\* transformations dict in insertion order)
SystemOrder == <<"global", "space", "other">>
TableOf(tf) == SelectSeq(SystemOrder, LAMBDA c : c \in tf)

Element(type, name, geom, index, tf) ==
    [type |-> type, name |-> name, geom |-> geom, index |-> index, tf |-> tf, ident |-> {},
     table |-> TableOf(tf)]

\* an element whose transformations were set in the order of table
ElementWithTable(type, name, geom, index, table) ==
    [type |-> type, name |-> name, geom |-> geom, index |-> index,
     tf |-> {table[i] : i \in 1..Len(table)}, ident |-> {}, table |-> table]

\* mutant: an element without a transform to the system falls back to its first one
get_transform_Fallback(e, name) ==
    LET cs == IF name = {} THEN e.table[1] ELSE CHOOSE c \in name : TRUE
    IN IF \E i \in 1..Len(e.table) : e.table[i] = cs THEN {cs} ELSE {e.table[1]}

\* _get_transform(element, coordinate_system_name): the affine of the transform
\* registered for the system (named after the system), None if there is none;
\* name is None ({}) when no system name is supplied
get_transform(e, name) ==
    LET cs == IF name = {} THEN e.table[1] ELSE CHOOSE c \in name : TRUE
    IN IF \E i \in 1..Len(e.table) : e.table[i] = cs THEN {cs} ELSE {}

\* sdata.table.obs[region_key]: the region each row of the annotation table annotates
TableRegions == <<N_x, N_cells, N_x>>

\* sdata.table[sdata.table.obs[region_key] == name]: the rows annotating name
TableRows(name) == SortedAsc({i - 1 : i \in {j \in 1..Len(TableRegions) : TableRegions[j] = name}})

Dataset0 ==
    { Element("points", N_pts, "", RangeList(2), {"global"}),
      Element("shapes", N_cells, "circle", <<5, 6, 7, 8>>, {"global"}) }

Dataset1 ==
    { Element("shapes", N_cells, "polygon", RangeList(2), {"space"}),
      Element("labels", N_x, "", <<>>, {"global"}) }

\* ------------------------------------------------------------------ state
VARIABLES
    sdata,         \* self.sdata: the list of loaded datasets (index i is sdata[i + 1])
    layers,        \* viewer.layers: slot -> layer (name, kind, row count, metadata)
    caches,        \* self._layer_event_caches: layer name -> list of cached events
    layer_names,   \* self.layer_names: the registry of tracked layer names
    last,          \* the operation handled last: its inputs, its error, its notification
    ops,           \* number of user operations handled so far
    catalog,       \* the element catalog built last: its coordinate system and its entries
    widget,        \* the dataset widget: ElementWidget._elements, CoordinateSystemWidget._system
    scatter,       \* the scatter widget: MatplotlibWidget.selector and the exported column
    adata_view     \* the table selection of the widgets of _view.py: DataModel.adata, the
                   \* table combo box, and the handler calls still to run for the event

vars == <<sdata, layers, caches, layer_names, last, ops, catalog, widget, scatter, adata_view>>

EmptyMd ==
    [has |-> FALSE, sdata |-> None, name |-> None, cs |-> None, active |-> {},
     n_indices |-> None, indices |-> None, region_key |-> None, adata |-> None]

NoLayer ==
    [present |-> FALSE, kind |-> "", name |-> <<>>, n |-> 0, md |-> EmptyMd, connected |-> FALSE,
     visible |-> FALSE, affine |-> None]

\* before the first click neither widget has its attribute
NoWidget == [elements |-> None, system |-> None]

\* MatplotlibWidget.__init__: self.selector = None; the table has no lasso column;
\* lasso records the last lasso completed since the last plot, for the claims
NoScatter == [selector |-> None, obs |-> None, lasso |-> None]

\* DataModel() and an empty QComboBox: no table, no item, nothing to run; kind
\* tells the two widgets apart, meta[i] is layer i's metadata["adata"]
NoView ==
    [kind |-> "view", active |-> 0, adata |-> None, meta |-> <<>>, items |-> <<>>, current |-> "",
     stack |-> <<>>, blocked |-> 0, runs |-> 0, err |-> ""]

NoOp ==
    [op |-> "init", slot |-> 0, sel |-> <<>>, action |-> "", pos |-> {}, k |-> 0,
     arg |-> <<>>, old |-> <<>>, err |-> "", info |-> FALSE, warned |-> FALSE, cs |-> "",
     visible |-> FALSE, before |-> {}, logged |-> FALSE, res |-> {}, elem |-> {},
     view |-> FALSE, runs |-> 0]

Present == {s \in Slots : layers[s].present}
LayerNames(ls) == {ls[s].name : s \in {t \in Slots : ls[t].present}}
OtherNames(ls, s) == {ls[t].name : t \in {u \in Slots : ls[u].present /\ u # s}}

\* metadata.get("sdata"): truthy when the key is there and holds a dataset
HasSdata(md) == md.has /\ md.sdata # None

\* a layer the tracker follows: it references a dataset element
Tracked(l) == l.present /\ HasSdata(l.md) /\ l.md.name # None

\* d[key] = value on a dict modelled as a function
DictSet(d, key, value) == [x \in (DOMAIN d) \cup {key} |-> IF x = key THEN value ELSE d[x]]
\* del d[key]
DictDel(d, key) == [x \in (DOMAIN d) \ {key} |-> d[x]]

\* ------------------------------------------------------------------ element names
\* [element_name for _, element_name, _ in sdata._gen_elements()]
SdataNames(ds) == {e.name : e \in ds}

\* get_duplicate_element_names: (names occurring more than once, all names)
AllElementNames(sd) == UNION {SdataNames(sd[i]) : i \in 1..Len(sd)}
NameCount(sd, name) == Cardinality({<<i, e>> \in UNION {{i} \X sd[i] : i \in 1..Len(sd)} : e.name = name})
get_duplicate_element_names(sd) == {name \in AllElementNames(sd) : NameCount(sd, name) > 1}

\* get_elements_meta_mapping: the display name of element e of dataset i
DisplayName(sd, i, e) ==
    IF e.name \notin get_duplicate_element_names(sd) THEN e.name ELSE SuffixName(e.name, i)

\* ------------------------------------------------------------------ layer factory
\* mutant: the dataset-index suffix is not stripped
OriginalName_NoStrip(key, multi) == key

\* original_name = key; if multi: original_name = original_name[: original_name.rfind("_")]
OriginalName(key, multi) == IF multi THEN StripSuffix(key) ELSE key

\* _get_sdata_key: multi is set when the display name differs from the original name
Multi(key, original) == key # original

\* _get_sdata_key(sdata, elements, key): the dataset at the entry's index and the
\* duplicate flag
get_sdata_key(sd, elements, key) ==
    [sdata |-> sd[elements[key].sdata_index + 1],
     multi |-> Multi(key, elements[key].original_name)]

\* the row count from which add_sdata_points subsamples (100000 in the source,
\* scaled down so that every subsample can be enumerated)
PointsThreshold == 3

\* np.arange(len(points)) below the threshold, else
\* np.sort(gen.choice(len(points), size=threshold, replace=False))
PointsSubsamples(n) ==
    IF n < PointsThreshold THEN {RangeList(n)}
    ELSE {SortedAsc(T) : T \in {U \in SUBSET (0..(n - 1)) : Cardinality(U) = PointsThreshold}}

\* logger.info("Subsampling points because ..."): the else branch was taken
SubsampleLogged(e) == e.type = "points" /\ ~(Len(e.index) < PointsThreshold)

\* the row selections an element may be loaded with
\*   points:   subsample
\*   circles:  df.index.to_list()
\*   polygons: the row identities returned by _get_polygons_properties
FactorySubsamples(e) == IF e.type = "points" THEN PointsSubsamples(Len(e.index)) ELSE {e.index}

\* mutant: the subsampled rows are numbered anew
FactoryIndices_Rebased(e, sub) == RangeList(Len(sub))

\* "indices": subsample.tolist() / df.index.to_list() / indices
FactoryIndices(e, sub) == sub

\* "_n_indices": len(points) / len(df)
FactoryNIndices(e) == Len(e.index)

LayerKind(e) ==
    IF e.type = "images" THEN "Image"
    ELSE IF e.type = "labels" THEN "Labels"
    ELSE IF e.type = "points" THEN "Points"
    ELSE IF e.geom = "circle" THEN "Points" ELSE "Shapes"

\* "adata": the observation table attached to the layer
\*   points:            AnnData(obs=points.iloc[subsample, :])
\*   circles:           the table rows whose region is original_name
\*   polygons, labels:  the table rows whose region is key
FactoryAdata(e, key, original, sub) ==
    IF e.type = "images" THEN None
    ELSE IF e.type = "points" THEN Some(sub)
    ELSE IF e.type = "shapes" /\ e.geom = "circle" THEN Some(TableRows(original))
    ELSE Some(TableRows(key))

\* "region_key": uns["spatialdata_attrs"]["instance_key"] for labels,
\* uns["spatialdata_attrs"]["region_key"] for circles and polygons
FactoryRegionKey(e) ==
    IF e.type = "labels" THEN Some("instance_key")
    ELSE IF e.type = "shapes" THEN Some("region_key") ELSE None

\* the metadata bundle of add_sdata_image / _labels / _points / _circles / _shapes
FactoryMetadata(d, e, key, original, cs, sub) ==
    [has |-> TRUE, sdata |-> Some(d), name |-> Some(original), cs |-> Some(cs), active |-> {cs},
     n_indices |-> IF e.type \in {"points", "shapes"} THEN Some(FactoryNIndices(e)) ELSE None,
     indices |-> IF e.type \in {"points", "shapes"} THEN Some(FactoryIndices(e, sub)) ELSE None,
     region_key |-> FactoryRegionKey(e),
     adata |-> FactoryAdata(e, key, original, sub)]

\* the layer add_sdata_* hands to the viewer for element e of dataset d in
\* coordinate system cs with the rows sub; the viewer makes its name unique
\* among the names taken
FactoryLayer(sd, d, e, cs, taken, sub) ==
    LET key == DisplayName(sd, d, e)
        original == OriginalName(key, Multi(key, e.name))
        md == FactoryMetadata(d, e, key, original, cs, sub)
    IN [present |-> TRUE, kind |-> LayerKind(e), name |-> CoerceName(key, taken),
        n |-> Len(sub), md |-> md, connected |-> FALSE,
        visible |-> TRUE, affine |-> get_transform(e, Some(cs))]

\* a layer the user creates in the viewer with n drawn rows: no dataset metadata
FreeLayer(kind, name, n, taken) ==
    [present |-> TRUE, kind |-> kind, name |-> CoerceName(name, taken),
     n |-> n, md |-> EmptyMd, connected |-> FALSE, visible |-> TRUE, affine |-> None]

\* the tracker's own state: the layer list, the edit caches and the name registry
TrackerState(ls, cs, ns) == [layers |-> ls, caches |-> cs, names |-> ns]

\* the viewer inserts layer l in its first free slot, then _on_layer_insert runs:
\* a layer whose metadata references a dataset is registered and connected
OnLayerInsert(st, l) ==
    LET free == {s \in Slots : ~st.layers[s].present}
        slot == CHOOSE s \in free : \A t \in free : s <= t
    IN IF HasSdata(l.md)
       THEN [layers |-> [st.layers EXCEPT ![slot] = [l EXCEPT !.connected = TRUE]],
             caches |-> DictSet(st.caches, l.name, <<>>),
             names |-> st.names \cup {l.name}]
       ELSE [st EXCEPT !.layers[slot] = l]

FreeSlots == Slots \ Present
NextSlot == CHOOSE s \in FreeSlots : \A t \in FreeSlots : s <= t

\* the user picks element e of dataset d in coordinate system cs: add_sdata_*
\* builds the layer, the viewer inserts it, _on_layer_insert registers it
AddElement(d, e, cs) ==
    /\ FreeSlots # {}
    /\ e \in sdata[d + 1]
    /\ cs \in e.tf
    /\ \E sub \in FactorySubsamples(e) :
          LET l == FactoryLayer(sdata, d, e, cs, LayerNames(layers), sub)
              st == OnLayerInsert(TrackerState(layers, caches, layer_names), l)
          IN /\ layers' = st.layers
             /\ caches' = st.caches
             /\ layer_names' = st.names
             /\ last' = [NoOp EXCEPT !.op = "add_element", !.slot = NextSlot, !.arg = l.name,
                                     !.cs = cs, !.logged = SubsampleLogged(e),
                                     !.elem = Some(<<d, e>>)]
    /\ UNCHANGED sdata

FreeKinds == {"Points", "Shapes", "Labels", "Image"}
FreeNames == {N_new}
FreeRows == {0, 2}

\* the user creates a new layer in the viewer
AddFreeLayer(kind, name, n) ==
    /\ FreeSlots # {}
    /\ LET l == FreeLayer(kind, name, n, LayerNames(layers))
           st == OnLayerInsert(TrackerState(layers, caches, layer_names), l)
       IN /\ layers' = st.layers
          /\ caches' = st.caches
          /\ layer_names' = st.names
          /\ last' = [NoOp EXCEPT !.op = "add_free", !.slot = NextSlot, !.arg = l.name]
    /\ UNCHANGED sdata

\* the state after construction: an empty viewer, no cache, no registered name
Init ==
    /\ sdata = <<Dataset0, Dataset1>>
    /\ layers = [s \in Slots |-> NoLayer]
    /\ caches = <<>>
    /\ layer_names = {}
    /\ last = NoOp
    /\ ops = 0
    /\ catalog = None
    /\ widget = NoWidget
    /\ scatter = NoScatter
    /\ adata_view = NoView

\* _on_layer_removed, as the outcome (error, caches, registry) for layer l
OnLayerRemoved(l) ==
    IF ~l.md.has
    THEN [err |-> "KeyError", caches |-> caches, names |-> layer_names]
    ELSE IF l.md.name = None
    THEN [err |-> "", caches |-> caches, names |-> layer_names]
    ELSE IF l.name \notin DOMAIN caches
    THEN [err |-> "KeyError", caches |-> caches, names |-> layer_names]
    ELSE IF l.name \notin layer_names
    THEN [err |-> "KeyError", caches |-> DictDel(caches, l.name), names |-> layer_names]
    ELSE [err |-> "", caches |-> DictDel(caches, l.name), names |-> layer_names \ {l.name}]

\* the user removes the layer in slot s: the viewer drops it, then _on_layer_removed runs
RemoveLayer(s) ==
    /\ layers[s].present
    /\ LET r == OnLayerRemoved(layers[s])
       IN /\ caches' = r.caches
          /\ layer_names' = r.names
          /\ last' = [NoOp EXCEPT !.op = "remove_layer", !.slot = s, !.arg = layers[s].name, !.err = r.err]
    /\ layers' = [layers EXCEPT ![s] = NoLayer]
    /\ UNCHANGED sdata

\* ------------------------------------------------------------------ rename
RenameNames == {N_new, N_x, N_pts}

\* the body of _validate_name once old_layer_name is known: the name the layer
\* ends with and whether the user was notified
ValidateName(l, others, old) ==
    LET ntv == name_to_validate(l.name)
        dup == duplicate_pattern_found(l.name)
    IN IF HasSdata(l.md)
       THEN LET d == Get(l.md.sdata)
            IN IF ntv \in SdataNames(sdata[d + 1]) \/ dup
               THEN [name |-> CoerceName(old, others), info |-> TRUE]
               ELSE IF ntv \in AllElementNames(sdata)
               THEN [name |-> CoerceName(SuffixName(ntv, d), others), info |-> FALSE]
               ELSE [name |-> l.name, info |-> FALSE]
       ELSE IF dup \/ ntv \in AllElementNames(sdata)
       THEN [name |-> CoerceName(old, others), info |-> TRUE]
       ELSE [name |-> l.name, info |-> FALSE]

\* mutant: the element name in the metadata follows the layer name
SetLayerName_Rekeys(l, name) ==
    [l EXCEPT !.name = name, !.md.name = IF @ = None THEN @ ELSE Some(name)]

\* layer.name = ... inside _validate_name
SetLayerName(l, name) == [l EXCEPT !.name = name]

\* mutant: the handler stays connected while it assigns the name itself
Blocked_Never(inHandler) == FALSE

\* with layer.events.name.blocker(self._validate_name): a name event emitted
\* inside the with block of the handler does not reach the handler
Blocked(inHandler) == inHandler

\* the calls of _validate_name that one user rename of l (already carrying the
\* given name) ends in: one for the user's assignment, and one more when the
\* handler assigns a different name itself and that name event reaches it
Validations(l, final) == 1 + (IF final # l.name /\ ~Blocked(TRUE) THEN 1 ELSE 0)

\* the user renames the layer in slot s to new; the viewer makes the name unique
\* and, when the layer's name event is connected, _validate_name runs
Rename(s, new) ==
    /\ layers[s].present
    /\ LET others == OtherNames(layers, s)
           given == CoerceName(new, others)
           l == [layers[s] EXCEPT !.name = given]
           current == others \cup {given}
           candidates == layer_names \ current
       IN /\ given # layers[s].name
          /\ IF ~layers[s].connected
             THEN /\ layers' = [layers EXCEPT ![s] = l]
                  /\ last' = [NoOp EXCEPT !.op = "rename", !.slot = s, !.arg = given, !.old = layers[s].name]
                  /\ UNCHANGED layer_names
             ELSE IF candidates = {}
             THEN \* set().pop() raises KeyError
                  /\ layers' = [layers EXCEPT ![s] = l]
                  /\ last' = [NoOp EXCEPT !.op = "rename", !.slot = s, !.arg = given,
                                          !.old = layers[s].name, !.err = "KeyError", !.runs = 1]
                  /\ UNCHANGED layer_names
             ELSE \E old \in candidates :
                    LET v == ValidateName(l, others, old)
                    IN /\ layers' = [layers EXCEPT ![s] = SetLayerName(l, v.name)]
                       /\ layer_names' = (layer_names \ {old}) \cup {v.name}
                       /\ last' = [NoOp EXCEPT !.op = "rename", !.slot = s, !.arg = given,
                                               !.old = layers[s].name, !.info = v.info,
                                               !.runs = Validations(l, v.name)]
    /\ UNCHANGED <<sdata, caches>>

\* ------------------------------------------------------------------ data events
MaxCounter == 8     \* largest row-identity counter the model lets an ADD start from

\* a cached event: its action and event.indices as rewritten by the handler
CachedEvent(action, indices) == [action |-> action, indices |-> indices]

\* event.indices = tuple(metadata["indices"][i] for i in napari_indices)
TranslateIndices(M, order) == [j \in 1..Len(order) |-> M[order[j] + 1]]

\* tuple(n_indices + i for i in range(len(event.data_indices)))
NewIdentities(c, k) == [j \in 1..k |-> c + (j - 1)]

\* mutant: a REMOVE deletes the entries it finds before the lookup of a missing
\* position fails
UpdateCacheIndices_DeleteFirst(l, action, P, k) ==
    LET M == Get(l.md.indices)
        found == {p \in P : p < Len(M)}
    IN IF action = "REMOVE" /\ found # P
       THEN [md |-> [l.md EXCEPT !.indices = Some(DelAll(M, SortedDesc(found)))],
             caches |-> caches, err |-> "IndexError", warned |-> FALSE]
       ELSE [md |-> l.md, caches |-> caches, err |-> "IndexError", warned |-> FALSE]

\* _update_cache_indices on layer l (its name, kind and metadata) for an event with
\* the given action, the viewer-local positions P (REMOVE, CHANGE) or k added
\* rows (ADD): the metadata afterwards, the caches afterwards, error and warning
UpdateCacheIndices(l, action, P, k) ==
    LET M == Get(l.md.indices)
        order == SortedDesc(P)
        translate == action = "REMOVE" \/ (l.kind # "Points" /\ action = "CHANGE")
        stale == translate /\ \E p \in P : p >= Len(M)
        c == Get(l.md.n_indices)
        ids == IF action = "ADD" THEN NewIdentities(c, k) ELSE TranslateIndices(M, order)
        md1 == IF action = "REMOVE"
               THEN [l.md EXCEPT !.indices = Some(DelAll(M, order))]
               ELSE IF action = "ADD"
               THEN [l.md EXCEPT !.n_indices = Some(ids[k] + 1), !.indices = Some(M \o ids)]
               ELSE l.md
    IN IF stale
       THEN [md |-> l.md, caches |-> caches, err |-> "IndexError", warned |-> FALSE]
       ELSE IF l.kind = "Points" /\ action = "CHANGE"
       THEN [md |-> l.md, caches |-> caches, err |-> "", warned |-> TRUE]
       ELSE IF l.name \notin DOMAIN caches
       THEN [md |-> md1, caches |-> caches, err |-> "KeyError", warned |-> FALSE]
       ELSE [md |-> md1,
             caches |-> [caches EXCEPT ![l.name] = Append(@, CachedEvent(action, ids))],
             err |-> "", warned |-> FALSE]

\* the rows of a layer after the viewer applied the edit
RowsAfter(n, action, P, k) ==
    IF action = "ADD" THEN n + k ELSE IF action = "REMOVE" THEN n - Cardinality(P) ELSE n

\* the user edits the data of the tracked point/shape layer in slot s; the viewer
\* applies the edit and emits the data event to _update_cache_indices
DataEvent(s, action, P, k) ==
    /\ layers[s].present
    /\ layers[s].connected
    /\ layers[s].kind \in {"Points", "Shapes"}
    /\ IF action = "ADD"
       THEN P = {} /\ k \in 1..MaxAdd /\ layers[s].n + k <= MaxRows
       ELSE k = 0 /\ P # {} /\ Cardinality(P) <= MaxPick /\ P \subseteq 0..(layers[s].n - 1)
    /\ layers[s].name \in DOMAIN caches => Len(caches[layers[s].name]) < MaxCache
    /\ action = "ADD" => Get(layers[s].md.n_indices) <= MaxCounter
    /\ LET l == layers[s]
           r == UpdateCacheIndices(l, action, P, k)
       IN /\ layers' = [layers EXCEPT ![s].n = RowsAfter(l.n, action, P, k), ![s].md = r.md]
          /\ caches' = r.caches
          /\ last' = [NoOp EXCEPT !.op = "data", !.slot = s, !.action = action, !.pos = P,
                                  !.k = k, !.err = r.err, !.warned = r.warned]
    /\ UNCHANGED <<sdata, layer_names>>

\* ------------------------------------------------------------------ save
\* the selections handed to save and inherit: lists of distinct layers
Selections ==
    {<<>>} \cup {<<s>> : s \in Present}
           \cup {<<s, t>> : <<s, t>> \in {p \in Present \X Present : p[1] # p[2]}}

\* sdata.points[name] = model / sdata.shapes[name] = model: dict assignment
WriteElement(ds, type, name, n, cs) ==
    {e \in ds : ~(e.type = type /\ e.name = name)}
        \cup {[type |-> type, name |-> name, geom |-> IF type = "shapes" THEN "polygon" ELSE "",
               index |-> RangeList(n), tf |-> {cs}, ident |-> {cs}, table |-> <<cs>>]}

\* mutant: the row-index seed is not initialised at commit
UpdateMetadata_NoSeed(l) == [l.md EXCEPT !.name = Some(l.name)]

\* _update_metadata
UpdateMetadata(l) ==
    [l.md EXCEPT !.name = Some(l.name), !.n_indices = Some(l.n), !.indices = Some(RangeList(l.n)),
                 !.adata = IF l.kind = "Points" THEN Some(RangeList(l.n)) ELSE @]

\* mutant: the element name of the layer is not looked at
CanCommit_IgnoreName(md) == md.sdata # None

\* not layer.metadata["name"] and layer.metadata["sdata"]
CanCommit(md) == md.name = None /\ md.sdata # None

\* one iteration of the loop of save_to_sdata on the layer in slot s, from state st
SaveOne(st, s) ==
    LET l == st.layers[s]
    IN IF ~l.md.has
       THEN [st EXCEPT !.err = "KeyError"]
       ELSE IF CanCommit(l.md)
       THEN LET d == Get(l.md.sdata)
                cs == Get(l.md.cs)
                type == IF l.kind = "Points" THEN "points" ELSE "shapes"
            IN IF l.kind = "Shapes" /\ l.n = 0
               THEN [st EXCEPT !.err = "ValueError"]
               ELSE IF l.kind \in {"Image", "Labels"}
               THEN [st EXCEPT !.err = "NotImplementedError"]
               ELSE [st EXCEPT !.sdata[d + 1] = WriteElement(@, type, l.name, l.n, cs),
                               !.names = @ \cup {l.name},
                               !.caches = DictSet(@, l.name, <<>>),
                               !.layers[s].md = UpdateMetadata(l),
                               !.layers[s].connected = TRUE]
       ELSE [st EXCEPT !.err = "NotImplementedError"]

\* for layer in layers: ... ; an exception ends the loop
RECURSIVE SaveLoop(_, _)
SaveLoop(st, sel) ==
    IF sel = <<>> \/ st.err # "" THEN st ELSE SaveLoop(SaveOne(st, Head(sel)), Tail(sel))

\* save_to_sdata(layers) on the selection sel
SaveToSdata(sel) ==
    /\ sel \in Selections
    /\ LET st == SaveLoop([sdata |-> sdata, layers |-> layers, caches |-> caches,
                           names |-> layer_names, err |-> ""], sel)
       IN /\ sdata' = st.sdata
          /\ layers' = st.layers
          /\ caches' = st.caches
          /\ layer_names' = st.names
          /\ last' = [NoOp EXCEPT !.op = "save", !.sel = sel, !.err = st.err]

\* ------------------------------------------------------------------ inherit
\* mutant: the layer also takes over the element name of the reference layer
InheritedMetadata_KeepsName(kind, ref) ==
    [has |-> TRUE, sdata |-> ref.md.sdata, name |-> ref.md.name, cs |-> ref.md.cs,
     active |-> IF ref.md.cs = None THEN {} ELSE {Get(ref.md.cs)},
     n_indices |-> None, indices |-> None, region_key |-> None, adata |-> None]

\* the metadata a dataset-less layer of kind kind receives from ref_layer
InheritedMetadata(kind, ref) ==
    [has |-> TRUE, sdata |-> ref.md.sdata, name |-> None, cs |-> ref.md.cs,
     active |-> IF ref.md.cs = None THEN {} ELSE {Get(ref.md.cs)},
     n_indices |-> None, indices |-> None, region_key |-> None, adata |-> None]

\* mutant: the first dataset found wins, different datasets are not noticed
InheritError_FirstWins(sdatas) == IF sdatas = {} THEN "ValueError:none" ELSE ""

\* the two checks of inherit_metadata on the datasets collected from the selection
InheritError(sdatas) ==
    IF Cardinality(sdatas) > 1 THEN "ValueError:multiple"
    ELSE IF Cardinality(sdatas) < 1 THEN "ValueError:none"
    ELSE ""

\* inherit_metadata(layers) on the selection sel
InheritMetadata(sel) ==
    /\ sel \in Selections
    /\ LET withSdata == {i \in 1..Len(sel) : layers[sel[i]].md.has}
           sdatas == {layers[sel[i]].md.sdata : i \in withSdata}
       IN IF InheritError(sdatas) # ""
          THEN /\ last' = [NoOp EXCEPT !.op = "inherit", !.sel = sel, !.err = InheritError(sdatas)]
               /\ UNCHANGED layers
          ELSE LET first == CHOOSE i \in withSdata : \A j \in withSdata : i <= j
                   ref == layers[sel[first]]
                   targets == {sel[i] : i \in {j \in 1..Len(sel) :
                                   /\ sel[j] # sel[first]
                                   /\ layers[sel[j]].kind \in {"Labels", "Points", "Shapes"}
                                   /\ ~layers[sel[j]].md.has}}
               IN /\ layers' = [s \in Slots |->
                                  IF s \in targets
                                  THEN [layers[s] EXCEPT !.md = InheritedMetadata(layers[s].kind, ref)]
                                  ELSE layers[s]]
                  /\ last' = [NoOp EXCEPT !.op = "inherit", !.sel = sel, !.info = TRUE]
    /\ UNCHANGED <<sdata, caches, layer_names>>

\* ------------------------------------------------------------------ specification
Actions == {"ADD", "REMOVE", "CHANGE"}
Positions == 0..(MaxRows - 1)

Step ==
    \/ \E d \in 0..(Len(sdata) - 1) : \E e \in sdata[d + 1] : \E cs \in CoordSystems : AddElement(d, e, cs)
    \/ \E kind \in FreeKinds : \E name \in FreeNames : \E n \in FreeRows :
          AddFreeLayer(kind, name, IF kind \in {"Points", "Shapes"} THEN n ELSE 0)
    \/ \E s \in Slots : RemoveLayer(s)
    \/ \E s \in Slots : \E new \in RenameNames : Rename(s, new)
    \/ \E s \in Slots : \E action \in Actions : \E P \in SUBSET Positions : \E k \in 0..MaxAdd :
          DataEvent(s, action, P, k)
    \/ \E sel \in Selections : SaveToSdata(sel)
    \/ \E sel \in Selections : InheritMetadata(sel)

\* every user operation is counted; a session handles at most m of them
Session(m) == ops < m /\ ops' = ops + 1 /\ Step /\ UNCHANGED <<catalog, widget, scatter, adata_view>>

Next == Session(MaxOps)

NextDeep == Session(MaxDeepOps)

Spec == Init /\ [][Next]_vars

\* the same viewer, followed for one more operation
SpecDeep == Init /\ [][NextDeep]_vars

\* ------------------------------------------------------------------ element catalog
MaxDatasets == 2    \* datasets in the list handed to the catalog
MaxElements == 2    \* elements of one such dataset

N_cells_0 == <<"cells", "_", "0">>

\* the elements the datasets of the catalog specification are made of
ElementPool ==
    { Element("shapes", N_cells, "polygon", RangeList(1), {"global"}),
      Element("shapes", N_cells_0, "polygon", RangeList(1), {"global"}),
      Element("labels", N_x, "", <<>>, {"global", "space"}),
      Element("points", N_pts, "", RangeList(1), {"space"}) }

CatalogDatasets == {ds \in SUBSET ElementPool : Cardinality(ds) <= MaxElements}

CatalogLists == UNION {[1..n -> CatalogDatasets] : n \in 1..MaxDatasets}

\* sdata.filter_by_coordinate_system(cs): the elements with a transform to cs
filter_by_coordinate_system(ds, cs) == {e \in ds : cs \in e.tf}

\* _gen_elements walks the collections in this order
TypeRank(type) ==
    IF type = "images" THEN 1 ELSE IF type = "labels" THEN 2 ELSE IF type = "points" THEN 3 ELSE 4

\* the orders in which _gen_elements may yield the elements of ds: collection by
\* collection, inside a collection in the insertion order of its dict
GenElements(ds) ==
    {q \in [1..Cardinality(ds) -> ds] :
        /\ \A i, j \in 1..Cardinality(ds) : i # j => q[i] # q[j]
        /\ \A i, j \in 1..Cardinality(ds) : i < j => TypeRank(q[i].type) <= TypeRank(q[j].type)}

\* the inner loop of get_elements_meta_mapping over the elements of dataset index
RECURSIVE MapElements(_, _, _, _)
MapElements(elements, index, q, dups) ==
    IF q = <<>> THEN elements
    ELSE LET e == Head(q)
             name == IF e.name \notin dups THEN e.name ELSE SuffixName(e.name, index)
             meta == [element_type |-> e.type, sdata_index |-> index, original_name |-> e.name]
         IN MapElements(DictSet(elements, name, meta), index, Tail(q), dups)

\* the outer loop of get_elements_meta_mapping from dataset index on; orders[i + 1]
\* is the order in which dataset i yields its elements
RECURSIVE MapDatasets(_, _, _, _)
MapDatasets(elements, index, orders, dups) ==
    IF index >= Len(orders) THEN elements
    ELSE MapDatasets(MapElements(elements, index, orders[index + 1], dups), index + 1, orders, dups)

\* get_elements_meta_mapping(sdatas, coordinate_system_name, duplicate_element_names)
get_elements_meta_mapping(orders, dups) == MapDatasets(<<>>, 0, orders, dups)

\* the catalog is built for coordinate system cs from the loaded datasets
BuildCatalog(cs) ==
    /\ \E orders \in [1..Len(sdata) -> UNION {GenElements(filter_by_coordinate_system(sdata[i], cs)) : i \in 1..Len(sdata)}] :
          /\ \A i \in 1..Len(sdata) : orders[i] \in GenElements(filter_by_coordinate_system(sdata[i], cs))
          /\ catalog' = Some([cs |-> cs,
                              elements |-> get_elements_meta_mapping(orders, get_duplicate_element_names(sdata))])
    /\ last' = [NoOp EXCEPT !.op = "catalog"]
    /\ UNCHANGED <<sdata, layers, caches, layer_names, ops, widget, scatter, adata_view>>

\* any list of datasets, an empty viewer, no catalog yet
InitCatalog ==
    /\ sdata \in CatalogLists
    /\ layers = [s \in Slots |-> NoLayer]
    /\ caches = <<>>
    /\ layer_names = {}
    /\ last = NoOp
    /\ ops = 0
    /\ catalog = None
    /\ widget = NoWidget
    /\ scatter = NoScatter
    /\ adata_view = NoView

NextCatalog == \E cs \in CoordSystems : BuildCatalog(cs)

SpecCatalog == InitCatalog /\ [][NextCatalog]_vars

\* ------------------------------------------------------------------ layer factory alone
MaxPointRows == 5     \* rows of the points element handed to the factory
MaxFactoryOps == 2    \* elements loaded in one session of the factory specification

\* a dataset with one element of every kind; its points element has n rows
FactoryDataset(n) ==
    { Element("images", N_img, "", <<>>, {"global", "space"}),
      Element("labels", N_x, "", <<>>, {"global", "space"}),
      Element("points", N_pts, "", RangeList(n), {"global"}),
      Element("shapes", N_cells, "circle", <<5, 6>>, {"global"}) }

\* a second dataset that shares the names x and cells with the first
FactoryOther ==
    { Element("labels", N_x, "", <<>>, {"global"}),
      Element("shapes", N_cells, "polygon", RangeList(2), {"global", "space"}) }

FactoryLists ==
    {<<FactoryDataset(n)>> : n \in 0..MaxPointRows}
        \cup {<<FactoryDataset(n), FactoryOther>> : n \in 0..MaxPointRows}

\* one or two loaded datasets, an empty viewer
InitFactory ==
    /\ sdata \in FactoryLists
    /\ layers = [s \in Slots |-> NoLayer]
    /\ caches = <<>>
    /\ layer_names = {}
    /\ last = NoOp
    /\ ops = 0
    /\ catalog = None
    /\ widget = NoWidget
    /\ scatter = NoScatter
    /\ adata_view = NoView

NextFactory ==
    /\ ops < MaxFactoryOps
    /\ ops' = ops + 1
    /\ \E d \in 0..(Len(sdata) - 1) : \E e \in sdata[d + 1] : \E cs \in CoordSystems : AddElement(d, e, cs)
    /\ UNCHANGED <<catalog, widget, scatter, adata_view>>

SpecFactory == InitFactory /\ [][NextFactory]_vars

\* ------------------------------------------------------------------ transform resolver alone
ElementTypes == {"images", "labels", "points", "shapes"}

\* the transformation tables an element may carry: one to three systems in any
\* insertion order
ResolveTables ==
    {t \in UNION {[1..n -> Range(SystemOrder)] : n \in 1..Len(SystemOrder)} :
        \A i, j \in 1..Len(t) : i # j => t[i] # t[j]}

\* the system names _get_transform may be called with: none, or one of the systems
ResolveNames == {None} \cup {Some(c) : c \in Range(SystemOrder)}

\* the element the resolver is applied to
ResolveElement == CHOOSE e \in sdata[1] : TRUE

\* _get_transform(element, name) is called
Resolve(name) ==
    /\ last' = [NoOp EXCEPT !.op = "get_transform",
                            !.cs = IF name = None THEN "" ELSE Get(name),
                            !.res = get_transform(ResolveElement, name)]
    /\ UNCHANGED <<sdata, layers, caches, layer_names, ops, catalog, widget, scatter, adata_view>>

\* one element of any kind with any transformation table
InitResolve ==
    /\ \E type \in ElementTypes : \E table \in ResolveTables :
          sdata = <<{ElementWithTable(type, N_x, "", <<>>, table)}>>
    /\ layers = [s \in Slots |-> NoLayer]
    /\ caches = <<>>
    /\ layer_names = {}
    /\ last = NoOp
    /\ ops = 0
    /\ catalog = None
    /\ widget = NoWidget
    /\ scatter = NoScatter
    /\ adata_view = NoView

NextResolve == \E name \in ResolveNames : Resolve(name)

SpecResolve == InitResolve /\ [][NextResolve]_vars

\* ------------------------------------------------------------------ dataset widget
MaxWidgetOps == 4   \* user operations in one session with the dataset widget

WidgetSystems == {"global", "space", "other"}

\* the dataset the widget is constructed with
WidgetDataset ==
    { Element("images", N_img, "", <<>>, {"global", "space"}),
      Element("labels", N_x, "", <<>>, {"global", "space"}),
      Element("points", N_pts, "", RangeList(2), {"global", "space", "other"}),
      Element("shapes", N_cells, "polygon", RangeList(2), {"global"}) }

\* SpatialDataLayers[element_type].value: the layer class of a collection
SpatialDataLayers(type) ==
    IF type = "images" THEN "Image"
    ELSE IF type = "labels" THEN "Labels"
    ELSE IF type = "points" THEN "Points" ELSE "Shapes"

\* elements[element_name] = element_type for the elements in the order q
RECURSIVE ElementList(_, _)
ElementList(elements, q) ==
    IF q = <<>> THEN elements
    ELSE ElementList(DictSet(elements, Head(q).name, Head(q).type), Tail(q))

\* mutant: the entries of the previous selection are kept
OnClickChange_NoClear(prev, q) == ElementList(IF prev = None THEN <<>> ELSE Get(prev), q)

\* ElementWidget._onClickChange: self.clear(); elements = {}; ...; self._elements = elements
OnClickChange(prev, q) == ElementList(<<>>, q)

\* mutant: a layer whose name is not in the element list is left alone
UpdateLayerVisibility_KindOnly(ls, elements) ==
    [s \in Slots |->
        IF /\ ls[s].present
           /\ ls[s].name \in DOMAIN elements
           /\ ls[s].kind # SpatialDataLayers(elements[ls[s].name])
        THEN [ls[s] EXCEPT !.visible = FALSE]
        ELSE ls[s]]

\* SdataWidget._update_layer_visibility
UpdateLayerVisibility(ls, elements) ==
    [s \in Slots |->
        IF /\ ls[s].present
           /\ \/ ls[s].name \notin DOMAIN elements
              \/ ls[s].kind # SpatialDataLayers(elements[ls[s].name])
        THEN [ls[s] EXCEPT !.visible = FALSE]
        ELSE ls[s]]

\* one iteration of the loop of _affine_transform_layers on the layer in slot s
AffineTransformLayer(st, s, cs) ==
    LET l == st.layers[s]
    IN IF ~l.present \/ ~HasSdata(l.md) THEN st
       ELSE IF l.md.name = None THEN [st EXCEPT !.err = "KeyError"]
       ELSE LET es == {e \in sdata[Get(l.md.sdata) + 1] : e.name = Get(l.md.name)}
            IN IF es = {} THEN [st EXCEPT !.err = "KeyError"]
               ELSE LET affine == get_transform(CHOOSE e \in es : TRUE, Some(cs))
                    IN IF affine # None THEN [st EXCEPT !.layers[s].affine = affine] ELSE st

\* _affine_transform_layers(coordinate_system): for layer in self.viewer.layers
RECURSIVE AffineTransformLayers(_, _, _)
AffineTransformLayers(st, s, cs) ==
    IF s > MaxLayers \/ st.err # "" THEN st
    ELSE AffineTransformLayers(AffineTransformLayer(st, s, cs), s + 1, cs)

\* mutant: the clicked system is not stored
SwitchState_NoSelect(cs, q) ==
    LET elements == OnClickChange(widget.elements, q)
        st == AffineTransformLayers([layers |-> UpdateLayerVisibility(layers, elements), err |-> ""], 1, cs)
    IN [widget |-> [elements |-> Some(elements), system |-> widget.system],
        layers |-> st.layers, err |-> st.err]

\* the three slots of coordinate_system_widget.itemClicked, then the affine
\* update of the viewer model: widget and layers afterwards
SwitchState(cs, q) ==
    LET elements == OnClickChange(widget.elements, q)
        st == AffineTransformLayers([layers |-> UpdateLayerVisibility(layers, elements), err |-> ""], 1, cs)
    IN [widget |-> [elements |-> Some(elements), system |-> Some(cs)],
        layers |-> st.layers, err |-> st.err]

\* the user clicks coordinate system cs in the widget: the element list is
\* rebuilt, the layers that are not in it are hidden, the system is stored, and
\* the viewer model re-resolves the affine of its layers
Switch(cs) ==
    /\ \E q \in GenElements(filter_by_coordinate_system(sdata[1], cs)) :
          LET st == SwitchState(cs, q)
          IN /\ widget' = st.widget
             /\ layers' = st.layers
             /\ last' = [NoOp EXCEPT !.op = "switch", !.cs = cs, !.err = st.err]
    /\ UNCHANGED <<sdata, caches, layer_names>>

\* mutant: the system selected in the widget is used, not the layer's own
OnManualVisibilityToggle_Selected(md, newVisible) ==
    IF ~HasSdata(md) \/ widget.system = None THEN md
    ELSE IF newVisible THEN [md EXCEPT !.active = @ \cup {Get(widget.system)}]
    ELSE [md EXCEPT !.active = @ \ {Get(widget.system)}]

\* onManualVisibilityToggle(layer, newVisible) on the metadata of a layer: the
\* layer's current coordinate system leaves or joins its active systems
OnManualVisibilityToggle(md, newVisible) ==
    IF ~HasSdata(md) \/ md.cs = None THEN md
    ELSE IF newVisible THEN [md EXCEPT !.active = @ \cup {Get(md.cs)}]
    ELSE [md EXCEPT !.active = @ \ {Get(md.cs)}]

\* the user ticks or unticks the eye of the layer in slot s
SetVisible(s, newVisible) ==
    /\ layers[s].present
    /\ layers[s].visible # newVisible
    /\ layers' = [layers EXCEPT ![s].visible = newVisible,
                                ![s].md = OnManualVisibilityToggle(@, newVisible)]
    /\ last' = [NoOp EXCEPT !.op = "visible", !.slot = s, !.visible = newVisible,
                            !.before = layers[s].md.active]
    /\ UNCHANGED <<sdata, caches, layer_names, widget>>

\* the user double-clicks entry key of the element list: SdataWidget._onClick
OnClick(key) ==
    /\ widget.elements # None
    /\ key \in DOMAIN Get(widget.elements)
    /\ \E e \in sdata[1] :
          /\ e.name = key /\ e.type = Get(widget.elements)[key]
          /\ AddElement(0, e, Get(widget.system))
    /\ UNCHANGED widget

WidgetStep ==
    \/ \E cs \in WidgetSystems : Switch(cs)
    \/ \E key \in SdataNames(sdata[1]) : OnClick(key)
    \/ \E kind \in FreeKinds : AddFreeLayer(kind, N_new, 0) /\ UNCHANGED widget
    \/ \E s \in Slots : \E new \in RenameNames : Rename(s, new) /\ UNCHANGED widget
    \/ \E s \in Slots : \E newVisible \in BOOLEAN : SetVisible(s, newVisible)

\* a viewer with the dataset widget docked, nothing clicked yet
InitWidget ==
    /\ sdata = <<WidgetDataset>>
    /\ layers = [s \in Slots |-> NoLayer]
    /\ caches = <<>>
    /\ layer_names = {}
    /\ last = NoOp
    /\ ops = 0
    /\ catalog = None
    /\ widget = NoWidget
    /\ scatter = NoScatter
    /\ adata_view = NoView

NextWidget == ops < MaxWidgetOps /\ ops' = ops + 1 /\ WidgetStep /\ UNCHANGED <<catalog, scatter, adata_view>>

SpecWidget == InitWidget /\ [][NextWidget]_vars

\* ------------------------------------------------------------------ scripted session
MaxScriptOps == 3   \* calls made in one scripted session

\* add_element(..., view_element_system): the system of the element is selected
\* first when asked for, otherwise widget and layers are left as they are
ViewElementSystem(cs, q, view) ==
    IF view THEN SwitchState(cs, q) ELSE [widget |-> widget, layers |-> layers, err |-> ""]

\* Interactive.add_element(element, element_coordinate_system, view_element_system)
InteractiveAddElement(e, cs, view) ==
    /\ FreeSlots # {}
    /\ e \in sdata[1]
    /\ cs \in e.tf
    /\ \E q \in GenElements(filter_by_coordinate_system(sdata[1], cs)) :
       \E sub \in FactorySubsamples(e) :
          LET v == ViewElementSystem(cs, q, view)
              l == FactoryLayer(sdata, 0, e, cs, LayerNames(v.layers), sub)
              st == OnLayerInsert(TrackerState(v.layers, caches, layer_names), l)
          IN /\ widget' = v.widget
             /\ layers' = st.layers
             /\ caches' = st.caches
             /\ layer_names' = st.names
             /\ last' = [NoOp EXCEPT !.op = "add_element", !.slot = NextSlot, !.arg = l.name,
                                     !.cs = cs, !.logged = SubsampleLogged(e),
                                     !.elem = Some(<<0, e>>), !.view = view]
    /\ UNCHANGED sdata

\* Interactive.switch_coordinate_system(cs) selects the item of the widget
ScriptStep ==
    \/ \E e \in sdata[1] : \E cs \in WidgetSystems : \E view \in BOOLEAN : InteractiveAddElement(e, cs, view)
    \/ \E cs \in WidgetSystems : Switch(cs)

NextScript == ops < MaxScriptOps /\ ops' = ops + 1 /\ ScriptStep /\ UNCHANGED <<catalog, scatter, adata_view>>

\* Interactive(sdata, headless=True): the viewer with the dataset widget docked
SpecScript == InitWidget /\ [][NextScript]_vars

\* ------------------------------------------------------------------ scatter widget
MaxPlotPoints == 3    \* points of one scatter plot

\* pd.Categorical(path.contains_points(self.xys)): one boolean per plotted
\* point, TRUE for the points inside the lasso path
LassoMask(npts, inside) == [i \in 1..npts |-> i \in inside]

\* mutant: a selector that exists is kept, only its collection is replaced
NewSelector_Reused(prev, npts) ==
    IF prev = None THEN Some([npts |-> npts, exported_data |-> None])
    ELSE Some([npts |-> npts, exported_data |-> Get(prev).exported_data])

\* SelectFromCollection.__init__ called at the end of MatplotlibWidget.plot
NewSelector(prev, npts) == Some([npts |-> npts, exported_data |-> None])

\* MatplotlibWidget.plot with npts points: the axes are cleared, the points are
\* drawn and a new selector is attached
Plot(npts) ==
    /\ scatter' = [scatter EXCEPT !.selector = NewSelector(@, npts), !.lasso = None]
    /\ last' = [NoOp EXCEPT !.op = "plot", !.k = npts]

\* SelectFromCollection.onselect: the user closes a lasso around the points inside
OnSelect(inside) ==
    /\ scatter.selector # None
    /\ inside \subseteq 1..Get(scatter.selector).npts
    /\ scatter' = [scatter EXCEPT
                      !.selector = Some([Get(@) EXCEPT
                                           !.exported_data = Some(LassoMask(Get(scatter.selector).npts, inside))]),
                      !.lasso = Some(inside)]
    /\ last' = [NoOp EXCEPT !.op = "lasso", !.pos = inside]

\* QtAdataScatterWidget.export followed by SelectFromCollection.export
Export ==
    IF scatter.selector = None \/ Get(scatter.selector).exported_data = None
    THEN /\ last' = [NoOp EXCEPT !.op = "export", !.err = "ValueError"]
         /\ UNCHANGED scatter
    ELSE /\ scatter' = [scatter EXCEPT !.obs = Get(scatter.selector).exported_data]
         /\ last' = [NoOp EXCEPT !.op = "export"]

\* a viewer with the scatter widget docked, nothing plotted yet
InitScatter ==
    /\ sdata = <<Dataset0>>
    /\ layers = [s \in Slots |-> NoLayer]
    /\ caches = <<>>
    /\ layer_names = {}
    /\ last = NoOp
    /\ ops = 0
    /\ catalog = None
    /\ widget = NoWidget
    /\ scatter = NoScatter
    /\ adata_view = NoView

ScatterStep ==
    \/ \E npts \in 1..MaxPlotPoints : Plot(npts)
    \/ \E inside \in SUBSET (1..MaxPlotPoints) : OnSelect(inside)
    \/ Export

NextScatter == ScatterStep /\ UNCHANGED <<sdata, layers, caches, layer_names, ops, catalog, widget, adata_view>>

SpecScatter == InitScatter /\ [][NextScatter]_vars

\* ------------------------------------------------------------------ switch with inherited layers
MaxSwitchOps == 5     \* user operations per session of this specification

\* the dataset widget next to the viewer's key bindings: systems are clicked,
\* elements are loaded, layers are drawn and inherit a dataset with Shift-L
SwitchStep ==
    \/ \E cs \in WidgetSystems : Switch(cs)
    \/ \E key \in SdataNames(sdata[1]) : OnClick(key)
    \/ \E kind \in FreeKinds : AddFreeLayer(kind, N_new, 0) /\ UNCHANGED widget
    \/ \E sel \in Selections : InheritMetadata(sel) /\ UNCHANGED widget

NextSwitch == ops < MaxSwitchOps /\ ops' = ops + 1 /\ SwitchStep /\ UNCHANGED <<catalog, scatter, adata_view>>

SpecSwitch == InitWidget /\ [][NextSwitch]_vars

\* ------------------------------------------------------------------ data events on a stale index map
MaxEventOps == 3     \* data events per session of this specification

\* the tracked layers of this specification: points 'pts' of the first dataset
\* and polygons 'cells' of the second one, as the factory builds them
EventLayers ==
    {[FactoryLayer(<<Dataset0, Dataset1>>, p[1], p[2], CHOOSE cs \in p[2].tf : TRUE, {}, p[2].index)
         EXCEPT !.connected = TRUE] :
        p \in {<<0, Element("points", N_pts, "", RangeList(2), {"global"})>>,
               <<1, Element("shapes", N_cells, "polygon", RangeList(2), {"space"})>>}}

\* one tracked layer is loaded; the viewer may hold more rows than the layer's
\* row_index_map has entries (rows that reached the viewer without an event)
InitEvents ==
    /\ sdata = <<Dataset0, Dataset1>>
    /\ \E l \in EventLayers : \E n \in l.n..MaxRows :
          /\ layers = [s \in Slots |-> IF s = 1 THEN [l EXCEPT !.n = n] ELSE NoLayer]
          /\ caches = DictSet(<<>>, l.name, <<>>)
          /\ layer_names = {l.name}
    /\ last = NoOp
    /\ ops = 0
    /\ catalog = None
    /\ widget = NoWidget
    /\ scatter = NoScatter
    /\ adata_view = NoView

NextEvents ==
    /\ ops < MaxEventOps
    /\ ops' = ops + 1
    /\ \E s \in Slots : \E action \in Actions : \E P \in SUBSET Positions : \E k \in 0..MaxAdd :
          DataEvent(s, action, P, k)
    /\ UNCHANGED <<catalog, widget, scatter, adata_view>>

SpecEvents == InitEvents /\ [][NextEvents]_vars

MaxNameOps == 3     \* user operations per session of this specification

N_x_0 == <<"x", "_", "0">>

\* a first dataset that also holds an element whose name ends in "_0"
SuffixedDataset == Dataset0 \cup {Element("labels", N_x_0, "", <<>>, {"global"})}

InitNames ==
    /\ sdata \in {<<SuffixedDataset, Dataset1>>, <<Dataset0, Dataset1>>}
    /\ layers = [s \in Slots |-> NoLayer]
    /\ caches = <<>>
    /\ layer_names = {}
    /\ last = NoOp
    /\ ops = 0
    /\ catalog = None
    /\ widget = NoWidget
    /\ scatter = NoScatter
    /\ adata_view = NoView

\* elements are loaded, layers are drawn, renamed and removed
NamesStep ==
    \/ \E d \in 0..(Len(sdata) - 1) : \E e \in sdata[d + 1] : \E cs \in CoordSystems : AddElement(d, e, cs)
    \/ \E kind \in FreeKinds : AddFreeLayer(kind, N_new, 0)
    \/ \E s \in Slots : RemoveLayer(s)
    \/ \E s \in Slots : \E new \in RenameNames : Rename(s, new)

NextNames == ops < MaxNameOps /\ ops' = ops + 1 /\ NamesStep /\ UNCHANGED <<catalog, widget, scatter, adata_view>>

SpecNames == InitNames /\ [][NextNames]_vars

\* ------------------------------------------------------------------ table selection
MaxViewOps == 3         \* user events per session of this specification
MaxHandlerRuns == 12    \* handler calls the model follows for one user event

\* QtAdataViewWidget and QtAdataScatterWidget
ViewKinds == {"view", "scatter"}

\* the layers the user may select: has tells whether metadata["adata"] is an
\* AnnData, tables is what _get_init_table_list returns for the layer
ViewLayers ==
    << [has |-> FALSE, tables |-> <<>>],
       [has |-> TRUE, tables |-> <<>>],
       [has |-> TRUE, tables |-> <<"t1">>],
       [has |-> TRUE, tables |-> <<"t1", "t2">>] >>

\* viewer.layers.selection.active: None (0) or one of the layers
ActiveLayer(v) == IF v.active = 0 THEN [has |-> FALSE, tables |-> <<>>] ELSE ViewLayers[v.active]

\* the slot connected to model.events.adata
AdataSlot(kind) == IF kind = "view" THEN "on_layer_update" ELSE "on_selection"

\* the slots connected to viewer.layers.selection.events.changed, in order
SelectionSlots(kind) ==
    IF kind = "view" THEN <<"select_layer">> ELSE <<"select_layer", "on_selection">>

\* mutant: the table is stored in the model with the adata signal left open
StoreTable_Unblocked == <<"set_adata">>

\* with self.model.events.adata.blocker(): self.model.adata = layer.metadata["adata"]
StoreTable == <<"block", "set_adata", "unblock">>

\* the calls that are handlers of the widget (the rest are the statements and
\* Qt calls the handlers are made of)
Handlers == {"select_layer", "on_layer_update", "on_selection", "update_adata"}

\* the call on top of the stack of widget v runs; a signal it emits puts the
\* connected slot on top of what is left of it (signals are delivered at once)
Run(v) ==
    LET top == Head(v.stack)
        rest == Tail(v.stack)
        layer == ActiveLayer(v)
        w == [v EXCEPT !.runs = IF top \in Handlers THEN @ + 1 ELSE @]
    IN CASE top = "select_layer" ->
              \* _select_layer: no AnnData: the combo box is cleared; else the
              \* layer's table goes to the model (and _on_layer_update is called)
              IF ~layer.has THEN [w EXCEPT !.stack = <<"clear">> \o rest]
              ELSE [w EXCEPT !.stack = (IF v.kind = "view" THEN <<"set_adata", "on_layer_update">>
                                                        ELSE <<"set_adata">>) \o rest]
         [] top = "set_adata" ->
              \* DataModel.adata setter: self._adata = adata; self.events.adata()
              [w EXCEPT !.adata = Some(v.meta[v.active]),
                        !.stack = (IF v.blocked = 0 THEN <<AdataSlot(v.kind)>> ELSE <<>>) \o rest]
         [] top = "on_layer_update" ->
              [w EXCEPT !.stack = <<"clear", "add_items">> \o rest]
         [] top = "on_selection" ->
              [w EXCEPT !.stack = (IF v.active # 0 THEN <<"clear", "add_items">> ELSE <<"clear">>) \o rest]
         [] top = "clear" ->
              \* QComboBox.clear(): currentTextChanged("") when there was a text
              [w EXCEPT !.items = <<>>, !.current = "",
                        !.stack = (IF v.current # "" THEN <<"update_adata">> ELSE <<>>) \o rest]
         [] top = "add_items" ->
              \* if table_list: addItems(table_list); setCurrentIndex(first): the
              \* first item of an empty box becomes current, currentTextChanged
              IF layer.tables = <<>> THEN [w EXCEPT !.stack = rest]
              ELSE IF v.current # "" THEN [w EXCEPT !.items = @ \o layer.tables, !.stack = rest]
              ELSE [w EXCEPT !.items = @ \o layer.tables, !.current = layer.tables[1],
                             !.stack = <<"update_adata">> \o rest]
         [] top = "update_adata" ->
              \* _update_adata: nothing for the empty text; else the joined table
              \* becomes the layer's adata and is stored in the model
              IF v.current = "" THEN [w EXCEPT !.stack = rest]
              ELSE IF v.active = 0 THEN [w EXCEPT !.err = "AttributeError", !.stack = <<>>]
              ELSE [w EXCEPT !.meta[v.active] = v.current, !.stack = StoreTable \o rest]
         [] top = "block" -> [w EXCEPT !.blocked = @ + 1, !.stack = rest]
         [] top = "unblock" -> [w EXCEPT !.blocked = @ - 1, !.stack = rest]

\* the user selects layer i (0: none) in the layer list
SelectLayer(i) ==
    /\ adata_view.stack = <<>>
    /\ ops < MaxViewOps
    /\ i # adata_view.active
    /\ adata_view' = [adata_view EXCEPT !.active = i, !.stack = SelectionSlots(adata_view.kind),
                                        !.runs = 0]
    /\ ops' = ops + 1
    /\ last' = [NoOp EXCEPT !.op = "select_layer", !.slot = i]

\* the user picks another table in the combo box
PickTable(t) ==
    /\ adata_view.stack = <<>>
    /\ ops < MaxViewOps
    /\ t \in Range(adata_view.items)
    /\ t # adata_view.current
    /\ adata_view' = [adata_view EXCEPT !.current = t, !.stack = <<"update_adata">>, !.runs = 0]
    /\ ops' = ops + 1
    /\ last' = [NoOp EXCEPT !.op = "pick_table"]

\* the next pending call of the event in progress runs
Dispatch ==
    /\ adata_view.stack # <<>>
    /\ Head(adata_view.stack) \in Handlers => adata_view.runs < MaxHandlerRuns
    /\ adata_view' = Run(adata_view)
    /\ UNCHANGED <<ops, last>>

\* one of the two widgets over a viewer without selection
InitView ==
    /\ sdata = <<Dataset0, Dataset1>>
    /\ layers = [s \in Slots |-> NoLayer]
    /\ caches = <<>>
    /\ layer_names = {}
    /\ last = NoOp
    /\ ops = 0
    /\ catalog = None
    /\ widget = NoWidget
    /\ scatter = NoScatter
    /\ \E kind \in ViewKinds :
          adata_view = [NoView EXCEPT !.kind = kind,
                                      !.meta = [i \in 1..Len(ViewLayers) |->
                                                   IF ViewLayers[i].has THEN "own" ELSE ""]]

\* the widgets of _view.py leave the viewer model and the other widgets alone
ViewFrame == UNCHANGED <<sdata, layers, caches, layer_names, catalog, widget, scatter>>

NextView ==
    /\ \/ \E i \in 0..Len(ViewLayers) : SelectLayer(i)
       \/ \E t \in {"t1", "t2"} : PickTable(t)
       \/ Dispatch
    /\ ViewFrame

\* a pending call is a Python call in progress: it runs as long as there is one
SpecView == InitView /\ [][NextView]_vars /\ WF_vars(Dispatch /\ ViewFrame)

\* ------------------------------------------------------------------ claims
\* the rows of M that are left when the positions P are taken out, in order
KeepRows(M, P) ==
    LET idx == {i \in 1..Len(M) : (i - 1) \notin P}
    IN [j \in 1..Cardinality(idx) |-> M[CHOOSE i \in idx : Cardinality({x \in idx : x < i}) = j - 1]]

IsRemove(op) == op.op = "data" /\ op.action = "REMOVE"
IsAdd(op) == op.op = "data" /\ op.action = "ADD"

\* C1: a REMOVE event on positions P of a tracked layer with row_index_map M
\* leaves row_index_map equal to M without the entries at P, order preserved,
\* and appends to the layer's edit cache one event whose indices are the row
\* identities {M[p] : p in P}
C1_RemovalTranslation ==
    [][IsRemove(last') =>
          LET s == last'.slot
              M == Get(layers[s].md.indices)
              P == last'.pos
              name == layers[s].name
          IN /\ layers'[s].md.indices = Some(KeepRows(M, P))
             /\ name \in DOMAIN caches /\ name \in DOMAIN caches'
             /\ Len(caches'[name]) = Len(caches[name]) + 1
             /\ SubSeq(caches'[name], 1, Len(caches[name])) = caches[name]
             /\ LET ev == caches'[name][Len(caches'[name])]
                IN /\ ev.action = "REMOVE"
                   /\ Len(ev.indices) = Cardinality(P)
                   /\ Range(ev.indices) = {M[p + 1] : p \in P}]_vars

\* the tracked point/shape layers
RowLayers == {s \in Slots : Tracked(layers[s]) /\ layers[s].kind \in {"Points", "Shapes"}}

\* C2: in every reachable state the row_index_map of a tracked point/shape layer
\* has as many entries as the layer has rows
C2_IndexMapLength ==
    \A s \in RowLayers :
        /\ layers[s].md.indices # None
        /\ Len(Get(layers[s].md.indices)) = layers[s].n

\* C2 witness: a tracked layer whose rows were both removed and added
C2_Witness ==
    \E s \in RowLayers :
        /\ IsAdd(last) /\ last.slot = s /\ last.k = 2
        /\ layers[s].n = 3
        /\ Get(layers[s].md.n_indices) > Len(Get(layers[s].md.indices))

\* C3: the entries of a tracked layer's row_index_map are pairwise distinct
\* (an identity minted by ADD is never one the map holds or held)
C3_IdentitiesDistinct ==
    \A s \in RowLayers :
        LET M == Get(layers[s].md.indices)
        IN \A i, j \in 1..Len(M) : i # j => M[i] # M[j]

\* C4: an ADD event of k rows on a tracked layer with counter c appends the
\* identities c, ..., c+k-1 in order to row_index_map, sets the counter to c+k
\* and appends the event with those identities to the layer's edit cache; the
\* counter never decreases under any event
C4_AddAssignsIdentities ==
    [][/\ IsAdd(last') =>
            LET s == last'.slot
                M == Get(layers[s].md.indices)
                c == Get(layers[s].md.n_indices)
                k == last'.k
                ids == [j \in 1..k |-> c + j - 1]
                name == layers[s].name
            IN /\ layers'[s].md.indices = Some(M \o ids)
               /\ layers'[s].md.n_indices = Some(c + k)
               /\ name \in DOMAIN caches /\ name \in DOMAIN caches'
               /\ caches'[name] = Append(caches[name], [action |-> "ADD", indices |-> ids])
       /\ \A s \in Slots :
            (last'.op = "data" /\ s \in RowLayers /\ layers'[s].md.n_indices # None)
                => Get(layers'[s].md.n_indices) >= Get(layers[s].md.n_indices)]_vars

\* a layer save can commit: it holds inherited metadata (a dataset, no element name)
Committable(l) == l.present /\ l.md.has /\ l.md.name = None /\ l.md.sdata # None

\* a layer that is backed by a dataset element
Backed(l) == l.present /\ l.md.has /\ l.md.name # None

\* the elements of collection type named name in dataset d
ElementsNamed(sd, d, type, name) == {e \in sd[d + 1] : e.type = type /\ e.name = name}

\* C5: saving a free polygon layer named N with n >= 1 polygons and current
\* coordinate system S creates a shapes element N with n geometries whose
\* transform in S is the identity; afterwards the layer is tracked against it
\* (empty edit cache under N, original_name N, row_index_map [0..n-1], counter n)
\* and a later removal of one row updates row_index_map as removal translation says
C5_CommitRoundTrip ==
    [][/\ \A s \in Slots :
            (/\ last'.op = "save"
             /\ last'.sel # <<>> /\ (last'.sel[1] = s \/ (s \in Range(last'.sel) /\ last'.err = ""))
             /\ Committable(layers[s]) /\ layers[s].kind = "Shapes" /\ layers[s].n >= 1)
            => LET l == layers[s]
                   d == Get(l.md.sdata)
                   S == Get(l.md.cs)
                   es == ElementsNamed(sdata', d, "shapes", l.name)
               IN /\ Cardinality(es) = 1
                  /\ \A e \in es : Len(e.index) = l.n /\ S \in e.ident /\ S \in e.tf
                  /\ layers'[s].md.name = Some(l.name)
                  /\ layers'[s].md.sdata = l.md.sdata
                  /\ l.name \in DOMAIN caches' /\ caches'[l.name] = <<>>
                  /\ l.name \in layer_names'
                  /\ layers'[s].md.indices = Some([i \in 1..l.n |-> i - 1])
                  /\ layers'[s].md.n_indices = Some(l.n)
                  /\ layers'[s].connected
       /\ (IsRemove(last') /\ Cardinality(last'.pos) = 1)
            => LET s == last'.slot
                   M == Get(layers[s].md.indices)
                   p == CHOOSE q \in last'.pos : TRUE
               IN layers'[s].md.indices =
                    Some([i \in 1..(Len(M) - 1) |-> IF i <= p THEN M[i] ELSE M[i + 1]])]_vars

\* C5 witness: one row was removed from a layer that save committed with two polygons
C5_Witness ==
    /\ IsRemove(last) /\ last.pos = {0}
    /\ LET l == layers[last.slot]
       IN /\ l.kind = "Shapes" /\ Backed(l)
          /\ \E e \in ElementsNamed(sdata, Get(l.md.sdata), "shapes", Get(l.md.name)) :
                e.ident # {} /\ Len(e.index) = 2
          /\ l.md.indices = Some(<<1>>)
          /\ Get(l.md.name) \in DOMAIN caches
          /\ caches[Get(l.md.name)] = <<[action |-> "REMOVE", indices |-> <<0>>]>>

\* C6: save on a layer that is already backed by a dataset element fails and
\* changes neither a dataset nor the layer's metadata, its edit cache or the name
\* registry; a layer is committed at most once
C6_SaveExistingRejected ==
    [][last'.op = "save" =>
          /\ (last'.sel # <<>> /\ Backed(layers[last'.sel[1]]))
                => /\ last'.err = "NotImplementedError"
                   /\ sdata' = sdata /\ layers' = layers
                   /\ caches' = caches /\ layer_names' = layer_names
          /\ \A s \in Range(last'.sel) :
                Backed(layers[s])
                    => /\ last'.err # ""
                       /\ layers'[s] = layers[s]]_vars

\* C6 witness: save was refused on a layer that an earlier save had committed
C6_Witness ==
    /\ last.op = "save" /\ last.err = "NotImplementedError" /\ Len(last.sel) = 1
    /\ LET l == layers[last.sel[1]]
       IN /\ Backed(l)
          /\ \E e \in sdata[Get(l.md.sdata) + 1] : e.name = Get(l.md.name) /\ e.ident # {}

\* C7: when save fails on any layer of the selection, no element has been
\* written to any dataset and no layer of the selection has become tracked
C7_SaveAtomic ==
    [][(last'.op = "save" /\ last'.err # "") =>
          /\ sdata' = sdata
          /\ \A s \in Range(last'.sel) : Tracked(layers'[s]) = Tracked(layers[s])]_vars

\* C8: save on a point or shape layer with zero rows fails with the empty
\* geometry error, writes no element and leaves the layer untracked
C8_SaveEmptyRejected ==
    [][\A s \in Slots :
          (/\ last'.op = "save" /\ last'.sel = <<s>>
           /\ Committable(layers[s]) /\ layers[s].kind \in {"Points", "Shapes"} /\ layers[s].n = 0)
          => /\ last'.err = "ValueError"
             /\ sdata' = sdata
             /\ ~Tracked(layers'[s])]_vars

\* a rename of the tracked layer in slot s that _validate_name handles
TrackedRename(op, s) ==
    op.op = "rename" /\ op.slot = s /\ layers[s].connected /\ HasSdata(layers[s].md)

\* C9: renaming a tracked layer of dataset D to a name used by an element of D
\* leaves the layer's name as it was before the rename and notifies the user;
\* the name registry still holds that previous name
C9_RenameCollisionReverts ==
    [][\A s \in Slots :
          (/\ TrackedRename(last', s)
           /\ last'.arg \in SdataNames(sdata[Get(layers[s].md.sdata) + 1]))
          => /\ layers'[s].name = layers[s].name
             /\ last'.info
             /\ layers[s].name \in layer_names']_vars

\* C10: renaming a tracked layer of the dataset at index i to a name that is no
\* element name of its own dataset but an element name of another loaded dataset
\* names the layer name + "_" + i; a name matching no element of any loaded
\* dataset and carrying no duplicate pattern is accepted unchanged
C10_RenameCrossDatasetSuffix ==
    [][\A s \in Slots :
          (TrackedRename(last', s) /\ ~duplicate_pattern_found(last'.arg))
          => LET i == Get(layers[s].md.sdata)
                 name == last'.arg
             IN /\ (name \notin SdataNames(sdata[i + 1]) /\ name \in AllElementNames(sdata))
                      => layers'[s].name = name \o <<"_", IndexToken(i)>>
                /\ name \notin AllElementNames(sdata) => layers'[s].name = name]_vars

\* C11: removing a tracked layer discards that layer's edit cache and its entry
\* in the name registry and mutates no dataset; the caches and registry entries
\* of all other layers are unchanged
C11_RemoveDiscardsCache ==
    [][\A s \in Slots :
          (last'.op = "remove_layer" /\ last'.slot = s /\ Tracked(layers[s]))
          => LET name == layers[s].name
             IN /\ last'.err = ""
                /\ name \notin DOMAIN caches'
                /\ name \notin layer_names'
                /\ sdata' = sdata
                /\ \A t \in Slots \ {s} :
                      Tracked(layers[t])
                        => /\ layers[t].name \in DOMAIN caches
                                => /\ layers[t].name \in DOMAIN caches'
                                   /\ caches'[layers[t].name] = caches[layers[t].name]
                           /\ (layers[t].name \in layer_names) = (layers[t].name \in layer_names')]_vars

\* a layer that carries no dataset metadata at all
Free(l) == l.present /\ ~l.md.has

\* C12: inserting a layer that carries no dataset metadata and later removing
\* it completes without error, and neither event changes the edit caches or
\* the name registry
C12_FreeLayerLifecycle ==
    [][/\ last'.op = "add_free"
            => last'.err = "" /\ caches' = caches /\ layer_names' = layer_names
       /\ \A s \in Slots :
            (last'.op = "remove_layer" /\ last'.slot = s /\ Free(layers[s]))
            => last'.err = "" /\ caches' = caches /\ layer_names' = layer_names]_vars

\* the dataset handles referenced by the layers of a selection
SelectionSdatas(sel) == {Get(layers[s].md.sdata) : s \in {t \in Range(sel) : HasSdata(layers[t].md)}}

\* C13: inherit on a selection whose layers reference two or more distinct
\* datasets fails as ambiguous, and on a selection in which no layer references
\* a dataset (the empty selection included) fails as lacking a dataset; in both
\* cases no layer's metadata is modified
C13_InheritRejects ==
    [][last'.op = "inherit" =>
          LET ds == SelectionSdatas(last'.sel)
          IN /\ Cardinality(ds) >= 2 => (last'.err = "ValueError:multiple" /\ layers' = layers)
             /\ ds = {} => (last'.err = "ValueError:none" /\ layers' = layers)]_vars

\* C13 witness: inherit was refused on two layers built from different datasets
C13_Witness ==
    /\ last.op = "inherit" /\ last.err = "ValueError:multiple" /\ Len(last.sel) = 2
    /\ Cardinality(SelectionSdatas(last.sel)) = 2

\* C14: inherit on a selection with exactly one distinct dataset gives every
\* selected point/shape/label layer that lacks a dataset reference that dataset,
\* the reference layer's current coordinate system, the singleton of it as
\* active coordinate systems, and null original name, region_key and row-index
\* seed; layers that already reference the dataset, and image layers, are unchanged
C14_InheritAssigns ==
    [][last'.op = "inherit" =>
          LET sel == last'.sel
              ds == SelectionSdatas(sel)
              refs == {i \in 1..Len(sel) : HasSdata(layers[sel[i]].md)}
          IN Cardinality(ds) = 1 =>
               LET ref == layers[sel[CHOOSE i \in refs : \A j \in refs : i <= j]]
               IN /\ last'.err = ""
                  /\ \A s \in Slots :
                        IF s \in Range(sel) /\ ~HasSdata(layers[s].md)
                              /\ layers[s].kind \in {"Points", "Shapes", "Labels"}
                        THEN /\ layers'[s].md.sdata = Some(CHOOSE d \in ds : TRUE)
                             /\ layers'[s].md.cs = ref.md.cs
                             /\ layers'[s].md.active = {Get(ref.md.cs)}
                             /\ layers'[s].md.name = None
                             /\ layers'[s].md.region_key = None
                             /\ layers'[s].md.indices = None
                             /\ layers'[s].md.n_indices = None
                             /\ [layers'[s] EXCEPT !.md = layers[s].md] = layers[s]
                        ELSE layers'[s] = layers[s]]_vars

\* C14 witness: a free layer selected before a tracked layer inherited its dataset
C14_Witness ==
    /\ last.op = "inherit" /\ last.err = "" /\ Len(last.sel) = 2
    /\ Tracked(layers[last.sel[2]])
    /\ LET l == layers[last.sel[1]]
       IN HasSdata(l.md) /\ l.md.name = None /\ l.md.sdata = layers[last.sel[2]].md.sdata

\* the presentable (dataset index, element) pairs of coordinate system cs
Presentable(cs) == UNION {{i - 1} \X filter_by_coordinate_system(sdata[i], cs) : i \in 1..Len(sdata)}

\* the catalog entry that describes element e of dataset i
EntryOf(i, e) == [element_type |-> e.type, sdata_index |-> i, original_name |-> e.name]

\* C15: the catalog is one-to-one: distinct presentable (dataset index, original
\* name) pairs receive distinct display names, so the catalog holds exactly one
\* entry per presentable element
C15_CatalogOneToOne ==
    catalog # None =>
        LET c == Get(catalog)
        IN /\ Cardinality(DOMAIN c.elements) = Cardinality(Presentable(c.cs))
           /\ \A p \in Presentable(c.cs) :
                 \E key \in DOMAIN c.elements : c.elements[key] = EntryOf(p[1], p[2])

\* C16: every presentable element whose original name occurs in more than one
\* dataset is in the catalog under original_name + "_" + dataset_index and never
\* under the bare name, and every non-duplicated name is there unchanged
C16_DuplicateSuffixing ==
    catalog # None =>
        LET c == Get(catalog)
            dups == {n \in AllElementNames(sdata) :
                        Cardinality({i \in 1..Len(sdata) : n \in SdataNames(sdata[i])}) > 1}
        IN \A p \in Presentable(c.cs) :
              LET i == p[1]
                  e == p[2]
                  key == IF e.name \in dups THEN e.name \o <<"_", IndexToken(i)>> ELSE e.name
              IN /\ key \in DOMAIN c.elements
                 /\ c.elements[key] = EntryOf(i, e)
                 /\ e.name \in dups =>
                        ~(e.name \in DOMAIN c.elements /\ c.elements[e.name] = EntryOf(i, e))

\* the element list of the dataset the widget holds, for coordinate system cs
PresentableNames(cs) == SdataNames(filter_by_coordinate_system(sdata[1], cs))

\* C17: after a coordinate system S is selected the element list is exactly the
\* set of elements presentable in S, each mapped to its kind; it is rebuilt on
\* every selection, and before the first selection there is no element list
C17_ElementListRebuilt ==
    /\ widget.system = None => widget.elements = None
    /\ widget.system # None =>
          /\ widget.elements # None
          /\ DOMAIN Get(widget.elements) = PresentableNames(Get(widget.system))
          /\ \A e \in filter_by_coordinate_system(sdata[1], Get(widget.system)) :
                Get(widget.elements)[e.name] = e.type

\* C17 witness: "other" is selected after a layer was loaded in "global"; of the
\* four elements listed for "global" only the points element is left
C17_Witness ==
    /\ widget.system = Some("other")
    /\ DOMAIN Get(widget.elements) = {N_pts}
    /\ \E s \in Slots : layers[s].present /\ layers[s].md.cs = Some("global")
    /\ Cardinality(PresentableNames("global")) = 4

\* a layer built from, or committed as, a dataset element
DatasetDerived(l) == l.present /\ HasSdata(l.md) /\ l.md.name # None

\* the layer's element has a transform to coordinate system cs
HasTransform(l, cs) ==
    \E e \in sdata[Get(l.md.sdata) + 1] : e.name = Get(l.md.name) /\ cs \in e.tf

\* C18: on a switch to coordinate system S every dataset-derived layer that has
\* a transform to S ends up visible, has S in its active coordinate systems,
\* has current coordinate system S and has its affine set to the transform for S
C18_SwitchShowsPresent ==
    [][last'.op = "switch" =>
          \A s \in Slots :
              (DatasetDerived(layers[s]) /\ HasTransform(layers[s], last'.cs))
              => /\ layers'[s].visible
                 /\ last'.cs \in layers'[s].md.active
                 /\ layers'[s].md.cs = Some(last'.cs)
                 /\ layers'[s].affine = Some(last'.cs)]_vars

\* a visible layer of an element that is presentable in "global" and "space"
\* but not in "other", on in systems among "global" and "space"
OnInGlobalSpace(l) ==
    /\ DatasetDerived(l) /\ l.visible
    /\ HasTransform(l, "global") /\ HasTransform(l, "space") /\ ~HasTransform(l, "other")
    /\ l.md.active # {} /\ l.md.active \subseteq {"global", "space"}

C20_AbsentHiddenKeepsCurrent ==
    [][last'.op = "switch" =>
          \A s \in Slots :
              (DatasetDerived(layers[s]) /\ ~HasTransform(layers[s], last'.cs))
              => /\ ~layers'[s].visible
                 /\ layers'[s].md.cs # Some(last'.cs)
                 /\ (widget.system # None /\ HasTransform(layers[s], Get(widget.system)))
                        => layers'[s].md.cs = widget.system]_vars

\* the last operation switched the dataset-derived layer in slot s on or off
Toggled(op, s, newVisible) ==
    op.op = "visible" /\ op.slot = s /\ op.visible = newVisible

PresentEverywhere(l) == \A cs \in WidgetSystems : HasTransform(l, cs)

\* C22: a coordinate-system switch removes no member from the active systems
\* of any layer, and a layer that is presentable in global, space and other has
\* every system it was switched to in its set (so {global, space, other} after
\* global, space, other, global)
C22_SwitchMonotone ==
    [][last'.op = "switch" =>
          \A s \in Slots :
              DatasetDerived(layers[s]) =>
                 /\ layers[s].md.active \subseteq layers'[s].md.active
                 /\ PresentEverywhere(layers[s]) => last'.cs \in layers'[s].md.active]_vars

\* the layer the factory has just built, its dataset index and its element
Built(op) == op.op = "add_element"
BuiltDataset(op) == Get(op.elem)[1]
BuiltElement(op) == Get(op.elem)[2]

\* C23: every layer the factory builds for coordinate system S has active
\* systems {S}, current system S, the source dataset as dataset reference, the
\* element's name inside that dataset as original name, and is visible
C23_FactoryMetadata ==
    [][Built(last') =>
          LET l == layers'[last'.slot]
          IN /\ l.present /\ l.visible
             /\ l.kind = LayerKind(BuiltElement(last'))
             /\ l.md.active = {last'.cs}
             /\ l.md.cs = Some(last'.cs)
             /\ l.md.sdata = Some(BuiltDataset(last'))
             /\ l.md.name = Some(BuiltElement(last').name)]_vars

\* C23 witness: a circles layer was built under a display name that carries the
\* dataset-index suffix
C23_Witness ==
    /\ Built(last)
    /\ BuiltElement(last).geom = "circle"
    /\ layers[last.slot].name = SuffixName(N_cells, 0)
    /\ layers[last.slot].md.name = Some(N_cells)

\* C24: a labels layer carries the annotation-table rows whose region is the
\* element's original name, also under a suffixed display name, and its
\* region_key metadata is the table's instance-key column name
C24_LabelsTable ==
    [][(Built(last') /\ BuiltElement(last').type = "labels") =>
          LET l == layers'[last'.slot]
          IN /\ l.md.adata = Some(TableRows(BuiltElement(last').name))
             /\ l.md.region_key = Some("instance_key")]_vars

\* strictly increasing row positions below n
IncreasingBelow(M, n) ==
    /\ \A i \in 1..Len(M) : M[i] \in 0..(n - 1)
    /\ \A i, j \in 1..Len(M) : i < j => M[i] < M[j]

\* C25: a point layer built from more rows than the threshold has exactly
\* threshold rows, a row_index_map of that length holding strictly increasing
\* original row positions, an observation table over exactly those rows and a
\* logged notice; below the threshold row_index_map is the identity, no notice
C25_SubsamplingBound ==
    [][(Built(last') /\ BuiltElement(last').type = "points") =>
          LET l == layers'[last'.slot]
              n == Len(BuiltElement(last').index)
              M == Get(l.md.indices)
          IN /\ n > PointsThreshold =>
                   /\ l.n = PointsThreshold /\ Len(M) = PointsThreshold
                   /\ IncreasingBelow(M, n)
                   /\ l.md.adata = Some(M)
                   /\ last'.logged
             /\ n < PointsThreshold =>
                   /\ l.n = n /\ M = RangeList(n) /\ l.md.adata = Some(M)
                   /\ ~last'.logged]_vars

\* C25 witness: a subsampled layer whose rows are not the first rows of the element
C25_Witness ==
    /\ Built(last) /\ last.logged
    /\ Len(BuiltElement(last).index) = MaxPointRows
    /\ layers[last.slot].md.indices = Some(<<0, 2, MaxPointRows - 1>>)

\* C26: an element with exactly threshold rows is loaded without a subsampling
\* step and without a notice
C26_ThresholdExclusive ==
    [][(/\ Built(last') /\ BuiltElement(last').type = "points"
        /\ Len(BuiltElement(last').index) = PointsThreshold) =>
          /\ ~last'.logged
          /\ layers'[last'.slot].md.indices = Some(RangeList(PointsThreshold))]_vars

\* C27: whatever the outcome of a rename of a tracked layer (accepted, reverted,
\* suffixed), the layer's original name and dataset reference are unchanged;
\* only the layer's viewer name and the name registry may change
C27_RenameFrame ==
    [][\A s \in Slots :
          (last'.op = "rename" /\ last'.slot = s /\ Tracked(layers[s])) =>
             /\ layers'[s].md.name = layers[s].md.name
             /\ layers'[s].md.sdata = layers[s].md.sdata
             /\ layers'[s] = [layers[s] EXCEPT !.name = layers'[s].name]
             /\ \A t \in Slots \ {s} : layers'[t] = layers[t]
             /\ caches' = caches
             /\ sdata' = sdata]_vars

\* C27 witness: a tracked layer of dataset 0 built from pts was renamed to the
\* name of an element of dataset 1 and received the suffixed name
C27_Witness ==
    /\ last.op = "rename" /\ last.arg = N_x
    /\ Tracked(layers[last.slot])
    /\ layers[last.slot].name = SuffixName(N_x, 0)
    /\ layers[last.slot].md.name = Some(N_pts)
    /\ SuffixName(N_x, 0) \in layer_names

\* C28: called with a system name S, the resolver returns the affine of the
\* element's transform for S when the element's table has an entry for S and
\* null when it has none; the first-inserted entry is used only when no name is
\* supplied
C28_ResolveNoFallback ==
    [][last'.op = "get_transform" =>
          LET table == ResolveElement.table
              keys == {table[i] : i \in 1..Len(table)}
          IN /\ (last'.cs # "" /\ last'.cs \in keys) => last'.res = Some(last'.cs)
             /\ (last'.cs # "" /\ last'.cs \notin keys) => last'.res = None
             /\ last'.cs = "" => last'.res = Some(table[1])]_vars

\* C28 witness: the resolver returned null for "other" on an element whose table
\* was filled with space first and global second
C28_Witness ==
    /\ last.op = "get_transform" /\ last.cs = "other" /\ last.res = None
    /\ ResolveElement.table = <<"space", "global">>

\* C29: export writes the mask of the last lasso completed on the current plot,
\* one value per plotted point, as the column of the table; when no lasso has
\* completed on the current plot (nothing plotted, plotted but no lasso,
\* re-plotted after a lasso) it fails and leaves the table unchanged
C29_ExportLasso ==
    [][last'.op = "export" =>
          IF scatter.lasso = None
          THEN last'.err = "ValueError" /\ scatter'.obs = scatter.obs
          ELSE /\ last'.err = ""
               /\ scatter'.obs # None
               /\ Len(Get(scatter'.obs)) = Get(scatter.selector).npts
               /\ \A i \in 1..Len(Get(scatter'.obs)) :
                     Get(scatter'.obs)[i] <=> i \in Get(scatter.lasso)]_vars

\* C29 witness: after an export of one lasso and a re-plot another export failed
\* and the column still holds the mask of the first lasso
C29_Witness ==
    /\ last.op = "export" /\ last.err = "ValueError"
    /\ scatter.selector # None /\ scatter.lasso = None
    /\ scatter.obs = Some(<<TRUE, FALSE, TRUE>>)

TrackedNames == {layers[s].name : s \in {t \in Slots : Tracked(layers[t])}}

\* C31: in every reachable state the keys of the edit caches, the name registry
\* and the current viewer names of the tracked layers are the same set (so a
\* data event or a removal after an accepted rename finds the layer's cache)
C31_CachesFollowNames ==
    /\ DOMAIN caches = layer_names
    /\ layer_names = TrackedNames

\* the layer l carries the name of an element other than its own element
NamedLikeForeignElement(sd, l) ==
    \E d \in 0..(Len(sd) - 1) : \E e \in sd[d + 1] :
        /\ e.name = l.name
        /\ ~(l.md.sdata = Some(d) /\ l.md.name = Some(e.name))

\* C32: when rename handling has completed, the renamed tracked layer does not
\* carry the name of an element of a loaded dataset, except the element it was
\* built from or committed as; the auto-suffixed name is included
C32_RenameAvoidsElements ==
    [][(/\ last'.op = "rename"
        /\ last'.err = ""
        /\ Tracked(layers'[last'.slot]))
       => ~NamedLikeForeignElement(sdata', layers'[last'.slot])]_vars

\* C33: a coordinate-system switch handles every loaded layer without error,
\* also a layer that inherited a dataset and was not committed yet (dataset
\* set, no element name); such a layer keeps its affine
C33_SwitchHandlesInherited ==
    [][last'.op = "switch"
       => /\ last'.err = ""
          /\ \A s \in Slots : Committable(layers[s]) => layers'[s].affine = layers[s].affine]_vars

\* C34: a commit only adds to the datasets: every element that was in a dataset
\* before the save is in it afterwards with the same name and content, also
\* when the committed layer is named like an existing points or shapes element
C34_CommitOnlyAdds ==
    [][last'.op = "save"
       => /\ Len(sdata') = Len(sdata)
          /\ \A i \in 1..Len(sdata) : sdata[i] \subseteq sdata'[i]]_vars

IsChange(op) == op.op = "data" /\ op.action = "CHANGE"

\* C35: a CHANGE event on positions P leaves row_index_map and the row-identity
\* counter as they were; on a non-point layer one event with the row identities
\* {M[p] : p in P} is appended to the layer's edit cache, on a point layer
\* nothing is cached and a warning is surfaced
C35_ChangeReadOnly ==
    [][IsChange(last') =>
          LET s == last'.slot
              M == Get(layers[s].md.indices)
              P == last'.pos
              name == layers[s].name
          IN /\ layers'[s].md.indices = layers[s].md.indices
             /\ layers'[s].md.n_indices = layers[s].md.n_indices
             /\ IF layers[s].kind = "Points"
                THEN caches' = caches /\ last'.warned
                ELSE /\ name \in DOMAIN caches /\ name \in DOMAIN caches'
                     /\ Len(caches'[name]) = Len(caches[name]) + 1
                     /\ SubSeq(caches'[name], 1, Len(caches[name])) = caches[name]
                     /\ LET ev == caches'[name][Len(caches'[name])]
                        IN /\ ev.action = "CHANGE"
                           /\ Len(ev.indices) = Cardinality(P)
                           /\ Range(ev.indices) = {M[p + 1] : p \in P}]_vars

\* a REMOVE or CHANGE event op on the layer l names a position outside l's map
StaleEvent(op, l) ==
    /\ op.op = "data" /\ op.action \in {"REMOVE", "CHANGE"}
    /\ \E p \in op.pos : p >= Len(Get(l.md.indices))

\* the event is one whose positions are looked up in the map
Translated(op, l) == op.action = "REMOVE" \/ l.kind # "Points"

\* C36: a REMOVE or CHANGE event that names a position outside the layer's
\* row_index_map leaves row_index_map, the row-identity counter and the edit
\* caches as they were; when its positions are looked up in the map (every
\* REMOVE, CHANGE on a non-point layer) the handler fails with an error, the
\* CHANGE of a point layer is dropped with the warning
C36_StaleFailsClean ==
    [][StaleEvent(last', layers[last'.slot]) =>
          LET s == last'.slot
          IN /\ layers'[s].md.indices = layers[s].md.indices
             /\ layers'[s].md.n_indices = layers[s].md.n_indices
             /\ caches' = caches
             /\ IF Translated(last', layers[s]) THEN last'.err = "IndexError" ELSE last'.warned]_vars

\* C36 witness: a REMOVE that named a missing position failed on a layer whose
\* map and cache were not empty
C36_Witness ==
    /\ last.op = "data" /\ last.action = "REMOVE" /\ last.err = "IndexError"
    /\ \E p \in last.pos : p < Len(Get(layers[last.slot].md.indices))
    /\ \E p \in last.pos : p >= Len(Get(layers[last.slot].md.indices))
    /\ caches[layers[last.slot].name] # <<>>

\* C37: a user rename of a layer connected to rename validation runs the
\* validation exactly once, also when the handler assigns a name itself (revert
\* or auto-suffix), and replaces exactly one entry of the name registry: the
\* layer's old name goes out, its final name comes in
C37_ValidatedOnce ==
    [][(last'.op = "rename" /\ layers[last'.slot].connected) =>
          LET s == last'.slot
          IN /\ last'.runs = 1
             /\ last'.err = ""
             /\ layers[s].name \in layer_names
             /\ layer_names' = (layer_names \ {layers[s].name}) \cup {layers'[s].name}]_vars

\* C38: a coordinate-system switch leaves the visibility of every free layer
\* (a layer without dataset reference) as it was
C38_SwitchSparesFreeLayers ==
    [][last'.op = "switch"
       => \A s \in Slots :
             (layers[s].present /\ ~HasSdata(layers[s].md)) => layers'[s].visible = layers[s].visible]_vars

\* C39: for every entry of the catalog, the duplicate flag handed to the layer
\* factory is true exactly when the display name differs from the entry's
\* original name, the dataset handed over is the one at the entry's index and
\* holds an element of the entry's type under the name the factory recovers,
\* and that name is the entry's original name, also when it contains "_"
C39_DisplayNameRoundTrip ==
    catalog # None =>
        LET elements == Get(catalog).elements
        IN \A key \in DOMAIN elements :
              LET m == elements[key]
                  r == get_sdata_key(sdata, elements, key)
                  original == OriginalName(key, r.multi)
              IN /\ r.multi <=> key # m.original_name
                 /\ r.sdata = sdata[m.sdata_index + 1]
                 /\ original = m.original_name
                 /\ \E e \in r.sdata : e.name = original /\ e.type = m.element_type

\* C39 witness: the catalog holds the suffixed entry of a duplicate element
\* whose own name contains "_"
C39_Witness ==
    /\ catalog # None
    /\ SuffixName(N_cells_0, 1) \in DOMAIN Get(catalog).elements
    /\ Get(catalog).elements[SuffixName(N_cells_0, 1)].original_name = N_cells_0

\* C40: handling a layer-selection or a table-selection event terminates: the
\* calls it causes come to an end, the chain adata changed, table list
\* refreshed, table selected, adata set does not start itself again, and the
\* handlers run fewer than MaxHandlerRuns times per user event
C40_SelectionTerminates ==
    /\ [](adata_view.runs < MaxHandlerRuns)
    /\ (adata_view.stack # <<>>) ~> (adata_view.stack = <<>>)

\* C40 witness: a layer selection went through the whole chain and ended with
\* the selected table stored in the model
C40_Witness ==
    /\ adata_view.stack = <<>> /\ adata_view.blocked = 0
    /\ last.op = "select_layer"
    /\ adata_view.runs >= 4
    /\ adata_view.adata = Some("t1")

====
